---------------------------- MODULE Spec2Model ----------------------------
(***************************************************************************)
(* EEG preference-analysis pipeline: loader (src/src/io_module.py),        *)
(* quality-control engine (src/src/preprocess.py), feature extractor       *)
(* (src/src/features.py) and the pipeline driver (src/app.py).             *)
(*                                                                         *)
(* A 2-D array [channels, samples] is a sequence of rows, one per channel, *)
(* each a sequence of integers.  Python's None for an optional scalar is   *)
(* the empty sequence <<>>, a present value v is <<v>>.                     *)
(***************************************************************************)
EXTENDS Integers, Sequences, FiniteSets, TLC

(***************************************************************************)
(* Bounds of the model.                                                    *)
(***************************************************************************)
MaxWindows == 3
MaxK == 3
MaxMarkers == 3
MaxRows == 2
MaxDraws == 1

(***************************************************************************)
(* Program constants.                                                      *)
(***************************************************************************)
NumChannels == 2
WinLen == 1
Seed == 42
MinFilterLen == 10

(***************************************************************************)
(* numpy helpers.                                                          *)
(***************************************************************************)
Abs(x) == IF x < 0 THEN -x ELSE x

Range(s) == {s[i] : i \in 1..Len(s)}

\* data.shape[1]
NCols(data) == IF Len(data) = 0 THEN 0 ELSE Len(data[1])

\* data[:, a:b] with 0 <= a (Python slice: clipped to the array's end)
Slice(data, a, b) ==
    [c \in 1..Len(data) |->
        SubSeq(data[c], a + 1, IF b > Len(data[c]) THEN Len(data[c]) ELSE b)]

RECURSIVE SeqSum(_)
SeqSum(s) == IF Len(s) = 0 THEN 0 ELSE s[1] + SeqSum(Tail(s))

(***************************************************************************)
(* The process-global numpy random generator.  The Mersenne twister is     *)
(* modelled by a 4-bit linear congruential generator: what matters is that *)
(* seeding sets the whole state and every draw is a function of the state  *)
(* and advances it.                                                        *)
(***************************************************************************)
RngStates == 0..15

rng_seed(s) == s % 16

rng_next(st) == (5 * st + 3) % 16

\* Fisher-Yates over positions i, i-1, .., 2 of perm (numpy's permutation)
RECURSIVE Shuffle(_, _, _)
Shuffle(perm, i, st) ==
    IF i <= 1 THEN [perm |-> perm, rng |-> st]
    ELSE LET st2 == rng_next(st)
             j == (st2 % i) + 1
             swapped == [perm EXCEPT ![i] = perm[j], ![j] = perm[i]]
         IN Shuffle(swapped, i - 1, st2)

\* np.arange(n), here 1..n, as a tuple
RECURSIVE arange(_)
arange(n) == IF n = 0 THEN <<>> ELSE Append(arange(n - 1), n)

\* np.random.choice(n, k, replace=False): the first k of a permutation of 0..n-1
\* (here 1..n); the generator is advanced
random_choice(n, k, st) ==
    LET sh == Shuffle(arange(n), n, st)
    IN [indices |-> SubSeq(sh.perm, 1, k), rng |-> sh.rng]

\* np.random.seed(42)
seed_fixed_unseeded(st) == st

seed_fixed(st) == rng_seed(Seed)

(***************************************************************************)
(* preprocess.py: check_window_quality                                     *)
(***************************************************************************)
\* np.any(np.abs(window) > amp)
AnyAbsAbove(window, amp) ==
    \E c \in 1..Len(window) : \E t \in 1..Len(window[c]) :
        Abs(window[c][t]) > amp

\* np.any(np.abs(np.diff(window, axis=1)) > diff)
AnyDiffAbove(window, diff) ==
    \E c \in 1..Len(window) : \E t \in 1..(Len(window[c]) - 1) :
        Abs(window[c][t + 1] - window[c][t]) > diff

check_window_quality_ge(window, config) ==
    IF \E c \in 1..Len(window) : \E t \in 1..Len(window[c]) :
           Abs(window[c][t]) >= config.amp_uV
    THEN FALSE
    ELSE IF AnyDiffAbove(window, config.diff_uV) THEN FALSE
    ELSE TRUE

check_window_quality_inverted(window, config) ==
    IF \E c \in 1..Len(window) : \E t \in 1..Len(window[c]) :
           Abs(window[c][t]) < config.amp_uV
    THEN FALSE
    ELSE IF AnyDiffAbove(window, config.diff_uV) THEN FALSE
    ELSE TRUE

check_window_quality(window, config) ==
    IF AnyAbsAbove(window, config.amp_uV) THEN FALSE
    ELSE IF AnyDiffAbove(window, config.diff_uV) THEN FALSE
    ELSE TRUE

(***************************************************************************)
(* preprocess.py: get_clean_windows                                        *)
(***************************************************************************)
\* an epoch is the element-wise mean of den windows, kept exactly as the
\* matrix of sums num over den; None is NoEpoch
NoEpoch == [num |-> <<>>, den |-> 0]

\* the quality score taken over one window more than the segment holds
QCResult_extra_window(valid, n_clean, total) ==
    [is_valid |-> valid, n_clean_windows |-> n_clean, total_windows |-> total,
     quality_score |-> <<n_clean, total + 1>>]

QCResult(valid, n_clean, total) ==
    [is_valid |-> valid, n_clean_windows |-> n_clean, total_windows |-> total,
     \* quality_score = n_clean / total, kept as the exact fraction
     quality_score |-> IF total > 0 THEN <<n_clean, total>> ELSE <<0, 1>>]

win_len_samples(config) == WinLen * config.sfreq

\* data[:, i*w:(i+1)*w], i counted from 0
WindowAt(data, config, i) ==
    Slice(data, i * win_len_samples(config), (i + 1) * win_len_samples(config))

\* the indices (from 0) of the windows check_window_quality accepts, ascending
RECURSIVE CleanIndices(_, _, _, _)
CleanIndices(data, config, i, total) ==
    IF i >= total THEN <<>>
    ELSE (IF check_window_quality(WindowAt(data, config, i), config)
          THEN <<i>> ELSE <<>>) \o CleanIndices(data, config, i + 1, total)

\* np.mean(selected_windows, axis=0)
MeanOf(windows) ==
    [num |-> [c \in 1..Len(windows[1]) |->
                [t \in 1..Len(windows[1][c]) |->
                    SeqSum([w \in 1..Len(windows) |-> windows[w][c][t]])]],
     den |-> Len(windows)]

EnoughClean_gt(n_clean, num_samples_to_take) == n_clean > num_samples_to_take

EnoughClean(n_clean, num_samples_to_take) == n_clean >= num_samples_to_take

\* returns the epoch, the QCResult, the indices of the selected windows and the
\* generator state the call leaves behind
get_clean_windows(data, config, num_samples_to_take, st) ==
    IF NCols(data) < win_len_samples(config)
    THEN [epoch |-> NoEpoch, qc |-> QCResult(FALSE, 0, 0), selected |-> <<>>,
          rng |-> st]
    ELSE
      LET total_windows == NCols(data) \div win_len_samples(config)
          clean == CleanIndices(data, config, 0, total_windows)
          n_clean == Len(clean)
      IN IF EnoughClean(n_clean, num_samples_to_take)
         THEN LET ch == random_choice(n_clean, num_samples_to_take, seed_fixed(st))
                  sel == [i \in 1..num_samples_to_take |-> clean[ch.indices[i]]]
              IN [epoch |-> MeanOf([i \in 1..Len(sel) |->
                                       WindowAt(data, config, sel[i])]),
                  qc |-> QCResult(TRUE, n_clean, total_windows),
                  selected |-> sel,
                  rng |-> ch.rng]
         ELSE [epoch |-> NoEpoch,
               qc |-> QCResult(FALSE, n_clean, total_windows),
               selected |-> <<>>,
               rng |-> st]

(***************************************************************************)
(* utils.py: WindowConfig, FilterConfig, PreferenceLabel                   *)
(***************************************************************************)
BaselineLen == 3
StimEnd == 10
\* stim_start = 0.5 s, kept as the fraction StimStartNum / StimStartDen
StimStartNum == 1
StimStartDen == 2
DefaultSfreq == 250

LIKE == "LIKE"
DISLIKE == "DISLIKE"
NEUTRAL == "NEUTRAL"

(***************************************************************************)
(* io_module.py: the event resolver                                        *)
(***************************************************************************)
TrialDuration == 13
DummyOnset == 3
PracticeCodes == 2

\* mne.events_from_annotations on the annotations load_xdf_as_raw set from the
\* parsed markers: no annotations give an empty array (no exception); every
\* distinct description gets the integer code of its rank among the sorted
\* descriptions, and the rows keep the annotations' ascending onset order
events_from_annotations(raw) ==
    LET vals == {raw.markers[i].value : i \in 1..Len(raw.markers)}
    IN [i \in 1..Len(raw.markers) |->
          [sample |-> raw.markers[i].sample,
           event_id |-> Cardinality({u \in vals : u <= raw.markers[i].value})]]

\* events for slots i = 0 .. n_trials-1, the slots with id i+1 <= 2 left out
RECURSIVE DummySlots(_, _, _)
DummySlots(raw, i, n_trials) ==
    IF i >= n_trials THEN <<>>
    ELSE (IF i + 1 > PracticeCodes
          THEN <<[sample |-> (i * TrialDuration + DummyOnset) * raw.sfreq,
                  event_id |-> i + 1]>>
          ELSE <<>>) \o DummySlots(raw, i + 1, n_trials)

generate_dummy_events(raw) ==
    DummySlots(raw, 0, raw.n_times \div (raw.sfreq * TrialDuration))

\* the except branch is taken only when events_from_annotations raises
\* ValueError or IndexError (raw.annot_error)
UsesDummyEvents(raw) == raw.annot_error

get_events_from_raw(raw) ==
    IF UsesDummyEvents(raw) THEN generate_dummy_events(raw)
    ELSE events_from_annotations(raw)

\* events_df.drop_duplicates(subset='event_id', keep='first')
RECURSIVE DropDuplicatesKeepLast(_)
DropDuplicatesKeepLast(events) ==
    IF Len(events) = 0 THEN <<>>
    ELSE LET rest == Tail(events)
         IN IF \E j \in 1..Len(rest) : rest[j].event_id = events[1].event_id
            THEN DropDuplicatesKeepLast(rest)
            ELSE <<events[1]>> \o DropDuplicatesKeepLast(rest)

RECURSIVE DropDuplicatesFrom(_, _)
DropDuplicatesFrom(events, seen) ==
    IF Len(events) = 0 THEN <<>>
    ELSE IF events[1].event_id \in seen
         THEN DropDuplicatesFrom(Tail(events), seen)
         ELSE <<events[1]>> \o
              DropDuplicatesFrom(Tail(events), seen \cup {events[1].event_id})

drop_duplicates(events) == DropDuplicatesFrom(events, {})

(***************************************************************************)
(* io_module.py: extract_trials                                            *)
(***************************************************************************)
RECURSIVE SelectSeq2(_, _)
SelectSeq2(s, keep) ==
    IF Len(s) = 0 THEN <<>>
    ELSE (IF keep[1] THEN <<s[1]>> ELSE <<>>) \o SelectSeq2(Tail(s), Tail(keep))

\* events[events[:, 2] > 2] if np.any(events[:, 2] > 2) else events
valid_events_all(events) == events

valid_events(events) ==
    IF \E i \in 1..Len(events) : events[i].event_id > PracticeCodes
    THEN SelectSeq2(events, [i \in 1..Len(events) |->
                                events[i].event_id > PracticeCodes])
    ELSE events

LikeMin == 6
DislikeMax == 2

PreferenceOfScore_gt(score) ==
    IF score > LikeMin THEN LIKE
    ELSE IF score <= DislikeMax THEN DISLIKE
    ELSE NEUTRAL

PreferenceOfScore(score) ==
    IF score >= LikeMin THEN LIKE
    ELSE IF score <= DislikeMax THEN DISLIKE
    ELSE NEUTRAL

\* survey_df[survey_df['trial_id'] == trial_id]
MatchingRows(rows, trial_id) ==
    SelectSeq2(rows, [i \in 1..Len(rows) |-> rows[i].trial_id = trial_id])

\* preference, valence, arousal of one trial; survey_df is <<>> (None) or <<rows>>
SurveyLookup(survey_df, trial_id) ==
    LET none == [preference |-> NEUTRAL, valence |-> <<>>, arousal |-> <<>>]
    IN IF Len(survey_df) = 0 THEN none
       ELSE IF Len(survey_df[1]) = 0 THEN none
       ELSE LET trial_survey == MatchingRows(survey_df[1], trial_id)
            IN IF Len(trial_survey) = 0 THEN none
               ELSE LET row == trial_survey[1]
                    IN [preference |->
                            IF Len(row.like_score) > 0
                            THEN PreferenceOfScore(row.like_score[1])
                            ELSE NEUTRAL,
                        valence |-> row.valence,
                        arousal |-> row.arousal]

TrialData(sid, trial_id, sv, baseline_data, stim_data) ==
    [subject_id |-> sid, trial_id |-> trial_id, preference |-> sv.preference,
     raw_baseline_data |-> baseline_data, raw_stim_data |-> stim_data,
     valence |-> sv.valence, arousal |-> sv.arousal,
     filtered_baseline_data |-> <<>>, filtered_stim_data |-> <<>>,
     clean_baseline_data |-> NoEpoch, clean_stim_data |-> NoEpoch,
     is_valid |-> FALSE,
     qc_info |-> <<>>]

RECURSIVE TrialsOf(_, _, _, _)
TrialsOf(raw, events, sid, survey_df) ==
    IF Len(events) = 0 THEN <<>>
    ELSE LET event == events[1]
             baseline_start == event.sample - BaselineLen * raw.sfreq
             stim_end == event.sample + StimEnd * raw.sfreq
         IN (IF baseline_start < 0 \/ stim_end > raw.n_times THEN <<>>
             ELSE <<TrialData(sid, event.event_id,
                              SurveyLookup(survey_df, event.event_id),
                              Slice(raw.data, baseline_start, event.sample),
                              Slice(raw.data, event.sample, stim_end))>>)
            \o TrialsOf(raw, Tail(events), sid, survey_df)

extract_trials(raw, events, sid, survey_df) ==
    TrialsOf(raw, valid_events(events), sid, survey_df)

(***************************************************************************)
(* preprocess.py: filter_data, notch_filter_data.  A segment shorter than  *)
(* 10 samples is returned as it is.  The FIR filters mne designs are       *)
(* modelled by two fixed integer kernels: a first difference (no gain at   *)
(* 0 Hz) for the band-pass and a two-sample comb for the notch; both keep  *)
(* the shape and are functions of the segment alone.                       *)
(***************************************************************************)
filter_data(data) ==
    IF NCols(data) < MinFilterLen THEN data
    ELSE [c \in 1..Len(data) |->
            [t \in 1..Len(data[c]) |->
                IF t = 1 THEN 0 ELSE data[c][t] - data[c][t - 1]]]

notch_filter_data(data) ==
    IF NCols(data) < MinFilterLen THEN data
    ELSE [c \in 1..Len(data) |->
            [t \in 1..Len(data[c]) |->
                data[c][t] + data[c][IF t > 2 THEN t - 2 ELSE 1]]]

(***************************************************************************)
(* preprocess.py: run_preprocessing_pipeline, one iteration of its loop    *)
(***************************************************************************)
TrialValid_or(baseline_qc, stim_qc) == baseline_qc.is_valid \/ stim_qc.is_valid

TrialValid(baseline_qc, stim_qc) == baseline_qc.is_valid /\ stim_qc.is_valid

\* the trial with its QC fields set, its summary row and the generator state
preprocess_trial(trial, cfg, st) ==
    LET fb == notch_filter_data(filter_data(trial.raw_baseline_data))
        stim_offset_samples == (StimStartNum * cfg.sfreq) \div StimStartDen
        stim_data_for_filtering ==
            Slice(trial.raw_stim_data, stim_offset_samples,
                  NCols(trial.raw_stim_data))
        fs == notch_filter_data(filter_data(stim_data_for_filtering))
        b == get_clean_windows(fb, cfg, cfg.baseline_samples, st)
        s == get_clean_windows(fs, cfg, cfg.stim_samples, b.rng)
        valid == TrialValid(b.qc, s.qc)
    IN [trial |-> [trial EXCEPT !.filtered_baseline_data = fb,
                                !.filtered_stim_data = fs,
                                !.clean_baseline_data = b.epoch,
                                !.clean_stim_data = s.epoch,
                                !.qc_info = <<[baseline |-> b.qc, stim |-> s.qc]>>,
                                !.is_valid = valid],
        row |-> [subject_id |-> trial.subject_id, trial_id |-> trial.trial_id,
                 preference |-> trial.preference, is_valid |-> valid,
                 baseline_clean_windows |-> b.qc.n_clean_windows,
                 baseline_total_windows |-> b.qc.total_windows,
                 stim_clean_windows |-> s.qc.n_clean_windows,
                 stim_total_windows |-> s.qc.total_windows],
        selected |-> [baseline |-> b.selected, stim |-> s.selected],
        rng |-> s.rng]

(***************************************************************************)
(* features.py.  Feature values are non-negative integers in units of the  *)
(* guard constant 1e-9 (Epsilon is one unit); ratios are exact fractions   *)
(* [num, den].  A call either returns a value or raises: its result is     *)
(* [raised, value], raised being "" or the name of the exception.          *)
(*                                                                         *)
(* The module binds no name scipy: its line 4 is "from scipy import        *)
(* signa", which raises ImportError when the module is imported, and       *)
(* line 13 evaluates scipy.signal.welch, which raises NameError on every   *)
(* call of get_band_power as the function is written.  The band powers are *)
(* the first features compute_features_for_epoch computes.                 *)
(***************************************************************************)
Epsilon == 1

FeatureNames == {"power", "differential_entropy"}

NameError == "NameError"

Raise(e) == [raised |-> e, value |-> <<>>]

Return(v) == [raised |-> "", value |-> v]

\* sum of squares of one channel of the epoch
SumSq(epoch, c) ==
    SeqSum([t \in 1..Len(epoch.num[c]) |-> epoch.num[c][t] * epoch.num[c][t]])

\* band power of one channel: the name scipy is unbound where welch is called
get_band_power(epoch, c) == Raise(NameError)

\* the channel's variance
differential_entropy(epoch, c) ==
    LET n == Len(epoch.num[c])
        sum == SeqSum(epoch.num[c])
    IN (n * SumSq(epoch, c) - sum * sum) \div (n * n * epoch.den * epoch.den)

\* the band powers first, then the entropies
compute_features_for_epoch(epoch) ==
    LET powers == [c \in 1..NumChannels |-> get_band_power(epoch, c)]
    IN IF \E c \in 1..NumChannels : powers[c].raised /= ""
       THEN Raise(powers[CHOOSE c \in 1..NumChannels :
                             powers[c].raised /= ""].raised)
       ELSE Return([name \in FeatureNames |->
                [c \in 1..NumChannels |->
                    IF name = "power" THEN powers[c].value
                    ELSE differential_entropy(epoch, c)]])

\* (stim_val - base_val) / base_val with base_val = baseline + 1e-9
RatioOf(baseline, stim) ==
    LET base_val == baseline + Epsilon
    IN [num |-> stim - base_val, den |-> base_val]

\* ratio[1] - ratio[0] of two fractions
Asymmetry(fp1, fp2) ==
    [num |-> fp2.num * fp1.den - fp1.num * fp2.den, den |-> fp1.den * fp2.den]

\* the columns of one row, from the two epochs' features
FeatureRow(trial, baseline_feats, stim_feats) ==
    LET ratio == [name \in FeatureNames |->
                    [c \in 1..NumChannels |->
                        RatioOf(baseline_feats[name][c], stim_feats[name][c])]]
    IN [subject_id |-> trial.subject_id, trial_id |-> trial.trial_id,
        preference |-> trial.preference,
        ratio |-> ratio,
        asymmetry |-> [name \in FeatureNames |->
                          Asymmetry(ratio[name][1], ratio[name][2])]]

trial_features(trial) ==
    LET baseline_feats == compute_features_for_epoch(trial.clean_baseline_data)
        stim_feats == compute_features_for_epoch(trial.clean_stim_data)
    IN IF baseline_feats.raised /= "" THEN Raise(baseline_feats.raised)
       ELSE IF stim_feats.raised /= "" THEN Raise(stim_feats.raised)
       ELSE Return(FeatureRow(trial, baseline_feats.value, stim_feats.value))

\* the loop over the trials: the rows of the valid ones, or the first
\* exception
RECURSIVE FeatureList(_)
FeatureList(trials) ==
    IF Len(trials) = 0 THEN Return(<<>>)
    ELSE IF ~trials[1].is_valid THEN FeatureList(Tail(trials))
    ELSE LET first == trial_features(trials[1])
             rest == FeatureList(Tail(trials))
         IN IF first.raised /= "" THEN Raise(first.raised)
            ELSE IF rest.raised /= "" THEN Raise(rest.raised)
            ELSE Return(<<first.value>> \o rest.value)

\* np.random.uniform(1, 9, n): n draws, each advancing the generator
RECURSIVE random_uniform(_, _)
random_uniform(n, st) ==
    IF n = 0 THEN [values |-> <<>>, rng |-> st]
    ELSE LET st2 == rng_next(st)
             rest == random_uniform(n - 1, st2)
         IN [values |-> <<1 + (st2 % 8)>> \o rest.values, rng |-> rest.rng]

\* the feature table (each row with its dummy_valence) and the generator
\* state, or the exception raised
extract_all_features(processed_trials, st) ==
    LET feature_list == FeatureList(processed_trials)
        n == IF feature_list.raised = "" THEN Len(feature_list.value) ELSE 0
        u == random_uniform(n, st)
    IN IF feature_list.raised /= ""
       THEN [raised |-> feature_list.raised, df |-> <<>>, rng |-> st]
       ELSE [raised |-> "",
             df |-> [i \in 1..n |->
                       [row |-> feature_list.value[i],
                        dummy_valence |-> u.values[i]]],
             rng |-> u.rng]

(***************************************************************************)
(* stats.py: run_statistical_analysis(df, feature, analysis_type).  A      *)
(* table is [columns, rows], a row [preference, value] with value <<>> for *)
(* a missing value; the result mapping is modelled by its set of keys.     *)
(* The two labels stand for the strings the function compares              *)
(* analysis_type with (the group comparison and the correlation analysis   *)
(* labels of lines 13 and 36).                                             *)
(***************************************************************************)
GroupComparisonLabel == "group comparison (like vs neutral)"
CorrelationLabel == "correlation (dummy continuous value)"

MinGroupSize == 2

\* df.loc[df['preference'] == label, feature].dropna()
GroupValues(df, label) ==
    SelectSeq(df.rows, LAMBDA r : r.preference = label /\ Len(r.value) > 0)

\* a call with more positional arguments than the three parameters raises
\* TypeError before the body is entered
run_statistical_analysis(args) ==
    IF Len(args) /= 3 THEN Raise("TypeError")
    ELSE
      LET df == args[1]
          feature == args[2]
          analysis_type == args[3]
      IN IF Len(df.rows) = 0 \/ feature \notin df.columns THEN Return({})
         ELSE IF analysis_type = GroupComparisonLabel
         THEN IF Len(GroupValues(df, LIKE)) < MinGroupSize
                 \/ Len(GroupValues(df, NEUTRAL)) < MinGroupSize
              THEN Return({})
              ELSE Return({"p_value", "statistic", "effect_size", "power"})
         ELSE IF analysis_type = CorrelationLabel
         THEN IF "dummy_valence" \notin df.columns THEN Return({})
              ELSE IF Len(SelectSeq(df.rows, LAMBDA r : Len(r.value) > 0))
                         < MinGroupSize
              THEN Return({})
              ELSE Return({"corr_coef", "p_value", "slope", "intercept"})
         ELSE Return({})

(***************************************************************************)
(* extract_subject_id_from_filename.  A file name is a sequence of         *)
(* one-character strings; the result is <<n>> for 'Sub<n>' and <<>> for    *)
(* None.  re.search finds the leftmost match; every quantifier of the four *)
(* patterns is greedy, and giving characters back never helps a later part *)
(* of the pattern to match, so the number captured has the value of the    *)
(* whole digit run.                                                        *)
(***************************************************************************)
LowerCase == <<"a", "b", "d", "e", "i", "k", "m", "n", "o", "p", "r", "s",
               "t", "u", "x">>
UpperCase == <<"A", "B", "D", "E", "I", "K", "M", "N", "O", "P", "R", "S",
               "T", "U", "X">>
DigitChars == <<"0", "1", "2", "3", "4", "5", "6", "7", "8", "9">>

\* flags=re.IGNORECASE: letters are compared in lower case
Lower(c) ==
    IF \E i \in 1..Len(UpperCase) : UpperCase[i] = c
    THEN LowerCase[CHOOSE i \in 1..Len(UpperCase) : UpperCase[i] = c]
    ELSE c

Upper(c) ==
    IF \E i \in 1..Len(LowerCase) : LowerCase[i] = c
    THEN UpperCase[CHOOSE i \in 1..Len(LowerCase) : LowerCase[i] = c]
    ELSE c

\* \d
IsDigit(c) == c \in Range(DigitChars)

\* \w: letters, digits and the underscore
IsWord(c) == IsDigit(c) \/ c = "_" \/ Lower(c) \in Range(LowerCase)

DigitValue(c) == (CHOOSE i \in 1..Len(DigitChars) : DigitChars[i] = c) - 1

\* \b at position i: between s[i - 1] and s[i], the ends counting as non-word
WordBoundary(s, i) ==
    LET before == i > 1 /\ IsWord(s[i - 1])
        after == i <= Len(s) /\ IsWord(s[i])
    IN before # after

\* the literal lit (in lower case) at position i, letter case ignored
MatchLiteral(s, i, lit) ==
    /\ i + Len(lit) - 1 <= Len(s)
    /\ \A k \in 1..Len(lit) : Lower(s[i + k - 1]) = lit[k]

\* \d+ at position i: the last index of the digit run (i - 1 when there is none)
RECURSIVE DigitRunEnd(_, _)
DigitRunEnd(s, i) ==
    IF i <= Len(s) /\ IsDigit(s[i]) THEN DigitRunEnd(s, i + 1) ELSE i - 1

\* int() of the digits s[a..b]
RECURSIVE IntOf(_, _, _)
IntOf(s, a, b) ==
    IF b < a THEN 0 ELSE 10 * IntOf(s, a, b - 1) + DigitValue(s[b])

\* one optional character of the set at position i: the position after it
SkipOptional(s, i, set) ==
    IF i <= Len(s) /\ Lower(s[i]) \in set THEN i + 1 ELSE i

\* 0*(\d+) at position j: <<value, end>> or <<>>
Number(s, j) ==
    LET e == DigitRunEnd(s, j)
    IN IF e < j THEN <<>> ELSE <<IntOf(s, j, e), e>>

\* sub[-_]?P?0*(\d+)
MatchSub(s, i) ==
    IF ~MatchLiteral(s, i, <<"s", "u", "b">>) THEN <<>>
    ELSE LET n == Number(s, SkipOptional(s, SkipOptional(s, i + 3, {"-", "_"}),
                                         {"p"}))
         IN IF Len(n) = 0 THEN <<>> ELSE <<n[1]>>

\* experiment_data_(\d+)
MatchExperiment(s, i) ==
    LET lit == <<"e", "x", "p", "e", "r", "i", "m", "e", "n", "t", "_",
                 "d", "a", "t", "a", "_">>
    IN IF ~MatchLiteral(s, i, lit) THEN <<>>
       ELSE LET n == Number(s, i + Len(lit))
            IN IF Len(n) = 0 THEN <<>> ELSE <<n[1]>>

\* \bsid_?0*(\d+)\b
MatchSid(s, i) ==
    IF ~(WordBoundary(s, i) /\ MatchLiteral(s, i, <<"s", "i", "d">>)) THEN <<>>
    ELSE LET n == Number(s, SkipOptional(s, i + 3, {"_"}))
         IN IF Len(n) = 0 \/ ~WordBoundary(s, n[2] + 1) THEN <<>>
            ELSE <<n[1]>>

\* \b(\d+)\b
MatchDigits(s, i) ==
    IF ~WordBoundary(s, i) THEN <<>>
    ELSE LET n == Number(s, i)
         IN IF Len(n) = 0 \/ ~WordBoundary(s, n[2] + 1) THEN <<>>
            ELSE <<n[1]>>

MatchPattern(pat, s, i) ==
    CASE pat = 1 -> MatchSub(s, i)
      [] pat = 2 -> MatchExperiment(s, i)
      [] pat = 3 -> MatchSid(s, i)
      [] OTHER -> MatchDigits(s, i)

\* re.search(pat, stem, flags=re.IGNORECASE): the leftmost match
re_search(pat, s) ==
    LET starts == {i \in 1..Len(s) : Len(MatchPattern(pat, s, i)) > 0}
    IN IF starts = {} THEN <<>>
       ELSE MatchPattern(pat, s, CHOOSE i \in starts : \A j \in starts : i <= j)

\* Path(fname).stem: the name without its last suffix
PathStem(fname) ==
    LET dots == {i \in 1..Len(fname) : fname[i] = "."}
        last == CHOOSE i \in dots : \A j \in dots : j <= i
    IN IF dots = {} \/ last = 1 \/ last = Len(fname) THEN fname
       ELSE SubSeq(fname, 1, last - 1)

NumPatterns == 4

\* the patterns are tried in order; the first that matches decides
RECURSIVE FirstMatch(_, _)
FirstMatch(pat, stem) ==
    IF pat > NumPatterns THEN <<>>
    ELSE LET m == re_search(pat, stem)
         IN IF Len(m) > 0 THEN m ELSE FirstMatch(pat + 1, stem)

extract_subject_id_from_filename(fname) == FirstMatch(1, PathStem(fname))

(***************************************************************************)
(* Uploaded files.  An EEG file is                                         *)
(*   [sid, is_xdf, readable, has_eeg, sfreq, n_secs, pattern, markers,     *)
(*    annot_error, write_raises, parse_raises]                             *)
(* sid: what extract_subject_id_from_filename makes of its name (<<>> for  *)
(* None); readable: pyxdf.load_xdf does not raise; has_eeg: a stream of    *)
(* type eeg with >= 2 channels; markers: the rows parse_xdf_markers yields *)
(* (sample offset, integer marker value), ascending; annot_error:          *)
(* mne.events_from_annotations raises ValueError or IndexError;            *)
(* write_raises: writing the uploaded bytes to the temporary file raises   *)
(* (OSError); parse_raises: load_xdf_as_raw raises outside its try block,  *)
(* in the loop over the streams (a stream whose type element is empty).    *)
(* A survey file is [sid, ok, rows]: ok when load_survey_data returns a    *)
(* table, rows its rows [subject_id, trial_id, like_score, valence,        *)
(* arousal].                                                               *)
(***************************************************************************)
Cycle(seq, i) == seq[((i - 1) % Len(seq)) + 1]

\* the sample of channel c at position t (from 1) of a recording
PatternValue(pattern, c, t) ==
    CASE pattern = "ramp" -> (t - 1) * NumChannels + c
      [] pattern = "flat" -> 0
      [] pattern = "quiet" -> Cycle(<<0, 1, 0, -1>>, t + c)
      [] pattern = "spikes" -> Cycle(<<0, 0, 0, 9, 0, 0, 0>>, t + 3 * c)
      [] OTHER -> Cycle(<<9, -9, 0>>, t + c)

RecordingData(f) ==
    [c \in 1..NumChannels |->
        [t \in 1..(f.n_secs * f.sfreq) |-> PatternValue(f.pattern, c, t)]]

(***************************************************************************)
(* io_module.py: load_xdf_as_raw.  None is <<>>, a recording is <<raw>>.   *)
(***************************************************************************)
load_xdf_as_raw(f) ==
    IF ~f.readable THEN <<>>
    ELSE IF ~f.has_eeg THEN <<>>
    ELSE <<[sfreq |-> f.sfreq, n_times |-> f.n_secs * f.sfreq,
            data |-> RecordingData(f), markers |-> f.markers,
            annot_error |-> f.annot_error]>>

(***************************************************************************)
(* io_module.py: pair_subject_files                                        *)
(***************************************************************************)
IndexOfSid(subjects, sid) ==
    IF \E i \in 1..Len(subjects) : subjects[i].sid = sid
    THEN CHOOSE i \in 1..Len(subjects) : subjects[i].sid = sid
    ELSE 0

\* every file opens an entry of its own
AddFile_new_entry(subjects, file_type, f) ==
    LET base == Append(subjects,
                       [sid |-> f.sid[1], eeg |-> <<>>, survey |-> <<>>])
    IN IF file_type = "eeg"
       THEN [base EXCEPT ![Len(base)].eeg = Append(@, f)]
       ELSE [base EXCEPT ![Len(base)].survey = Append(@, f)]

\* subjects.setdefault(sid, {'eeg': [], 'survey': []})[file_type].append(f)
AddFile(subjects, file_type, f) ==
    LET sid == f.sid[1]
        at == IndexOfSid(subjects, sid)
        base == IF at = 0
                THEN Append(subjects, [sid |-> sid, eeg |-> <<>>, survey |-> <<>>])
                ELSE subjects
        i == IF at = 0 THEN Len(base) ELSE at
    IN IF file_type = "eeg"
       THEN [base EXCEPT ![i].eeg = Append(@, f)]
       ELSE [base EXCEPT ![i].survey = Append(@, f)]

RECURSIVE PairFiles(_, _, _)
PairFiles(all_files, subjects, warnings) ==
    IF Len(all_files) = 0 THEN [subjects |-> subjects, notices |-> warnings]
    ELSE LET file_type == all_files[1][1]
             f == all_files[1][2]
         IN IF Len(f.sid) = 0
            THEN PairFiles(Tail(all_files), subjects,
                           Append(warnings, [kind |-> "no_subject_id", sid |-> 0]))
            ELSE PairFiles(Tail(all_files), AddFile(subjects, file_type, f),
                           warnings)

pair_subject_files(eegs, surveys) ==
    PairFiles([i \in 1..Len(eegs) |-> <<"eeg", eegs[i]>>]
              \o [i \in 1..Len(surveys) |-> <<"survey", surveys[i]>>],
              <<>>, <<>>)

(***************************************************************************)
(* io_module.py: load_all_trial_data, one iteration of its loop            *)
(***************************************************************************)
\* pd.concat of the tables load_survey_data returns for the subject's files
RECURSIVE ConcatSurveys(_)
ConcatSurveys(files) ==
    IF Len(files) = 0 THEN <<>>
    ELSE (IF files[1].ok THEN files[1].rows ELSE <<>>)
         \o ConcatSurveys(Tail(files))

SubjectSurvey(files) ==
    IF \E i \in 1..Len(files) : files[i].ok THEN <<ConcatSurveys(files)>>
    ELSE <<>>

Skipped(sid, kind, more) ==
    [trials |-> <<>>, notices |-> more \o <<[kind |-> kind, sid |-> sid]>>,
     sfreq |-> <<>>, raised |-> "", temp_left |-> FALSE,
     record |-> [sid |-> sid, outcome |-> kind, events |-> <<>>,
                 unique_events |-> <<>>, survey_df |-> <<>>, raw |-> <<>>,
                 dummy |-> FALSE]]

\* the exception e leaves the loop body: no notice, no trials
Raised(sid, e, temp_left) ==
    [trials |-> <<>>, notices |-> <<>>, sfreq |-> <<>>, raised |-> e,
     temp_left |-> temp_left,
     record |-> [sid |-> sid, outcome |-> "raised", events |-> <<>>,
                 unique_events |-> <<>>, survey_df |-> <<>>, raw |-> <<>>,
                 dummy |-> FALSE]]

\* the with block: NamedTemporaryFile(delete=False) creates the copy, then
\* tmp.write either returns or raises; the block closes the file, it does
\* not remove it
WriteRaises(eeg_file) == eeg_file.write_raises

\* the try block: load_xdf_as_raw is called for an .xdf name only; the finally
\* clause unlinks the copy whether or not the call raised
ParseRaises(eeg_file) ==
    eeg_file.is_xdf /\ eeg_file.readable /\ eeg_file.parse_raises

\* the trials the subject adds, the notices shown, the sampling rate written to
\* the shared config (<<>> when none is written), the exception that leaves
\* the loop ("" when none), whether the temporary copy is left on disk, and
\* the loop's locals
load_subject(entry) ==
    IF Len(entry.eeg) = 0 THEN Skipped(entry.sid, "no_eeg_file", <<>>)
    ELSE
      LET eeg_file == entry.eeg[1]
          survey_df == SubjectSurvey(entry.survey)
          raw == IF eeg_file.is_xdf THEN load_xdf_as_raw(eeg_file) ELSE <<>>
      IN IF WriteRaises(eeg_file) THEN Raised(entry.sid, "OSError", TRUE)
         ELSE IF ParseRaises(eeg_file)
         THEN Raised(entry.sid, "AttributeError", FALSE)
         ELSE IF Len(raw) = 0
         THEN [Skipped(entry.sid, "load_failed", <<>>) EXCEPT
                  !.record.survey_df = survey_df]
         ELSE
           LET dummy == UsesDummyEvents(raw[1])
               events == get_events_from_raw(raw[1])
               warn == IF dummy
                       THEN <<[kind |-> "dummy_events", sid |-> entry.sid]>>
                       ELSE <<>>
           IN IF Len(events) = 0
              THEN [Skipped(entry.sid, "no_events", warn) EXCEPT
                       !.sfreq = <<raw[1].sfreq>>,
                       !.record.survey_df = survey_df,
                       !.record.raw = raw,
                       !.record.dummy = dummy]
              ELSE
                LET unique_events == drop_duplicates(events)
                    info == IF Len(events) > Len(unique_events)
                            THEN <<[kind |-> "duplicates_removed",
                                    sid |-> entry.sid]>>
                            ELSE <<>>
                IN [trials |-> extract_trials(raw[1], unique_events, entry.sid,
                                              survey_df),
                    notices |-> warn \o info,
                    sfreq |-> <<raw[1].sfreq>>,
                    raised |-> "", temp_left |-> FALSE,
                    record |-> [sid |-> entry.sid, outcome |-> "extracted",
                                events |-> events,
                                unique_events |-> unique_events,
                                survey_df |-> survey_df, raw |-> raw,
                                dummy |-> dummy]]

\* qc_summary_rows.append({...}), for every trial
AppendRow_valid_only(rows, row) ==
    IF row.is_valid THEN Append(rows, row) ELSE rows

AppendRow(rows, row) == Append(rows, row)

\* all_trials.extend(subject_trials)
Extend_replace(all, subject_trials) == subject_trials

Extend(all, subject_trials) == all \o subject_trials

\* "if not x": an empty list (run_full_pipeline's two early returns)
IsEmpty_never(list) == FALSE

IsEmpty(list) == Len(list) = 0

(***************************************************************************)
(* State.                                                                  *)
(***************************************************************************)
VARIABLES
    pc,               \* where the process is: idle, load, qc, done, or qc_call
    eeg_files,        \* the uploaded recordings
    survey_files,     \* the uploaded survey tables
    config,           \* AppConfig: sfreq, amp_uV, diff_uV, baseline_samples, stim_samples
    rng,              \* state of the process-global numpy generator
    draws,            \* draws made by the rest of the process so far
    subjects,         \* pair_subject_files' result, in insertion order
    next_subject,     \* position of load_all_trial_data's loop
    loaded,           \* per subject handled: the locals of the loop body
    all_trials,       \* the TrialData list (mutated in place by the QC stage)
    next_trial,       \* position of run_preprocessing_pipeline's loop
    selections,       \* per processed trial: the windows sampled
    qc_summary_rows,  \* rows of the QC summary table
    features_df,      \* the feature table
    error_message,    \* run_full_pipeline's fourth result
    notices,          \* st.warning / st.info / st.error shown so far
    run,              \* 1 or 2: which run of the pipeline this is
    run1,             \* what the first run returned
    run_starts,       \* the generator state at the start of each run
    qc_in,            \* arguments of a direct get_clean_windows call
    qc_out,           \* its results
    fn_in,            \* arguments of a direct call of another function
    fn_out,           \* what that call returned
    temp_files,       \* the temporary copies on disk, by subject
    stages            \* the stages this run has entered, in order

vars == <<pc, eeg_files, survey_files, config, rng, draws, subjects,
          next_subject, loaded, all_trials, next_trial, selections,
          qc_summary_rows, features_df, error_message, notices, run, run1,
          run_starts, qc_in, qc_out, fn_in, fn_out, temp_files, stages>>

inputs == <<eeg_files, survey_files, qc_in, qc_out, fn_in, fn_out>>

\* what run_full_pipeline returns, with the windows each trial sampled and
\* whether it ended by an exception instead
RunResult ==
    [qc_stats |-> qc_summary_rows, features_df |-> features_df,
     processed_trials |-> all_trials, error_message |-> error_message,
     selections |-> selections, raised |-> (pc = "raised")]

NoResult ==
    [qc_stats |-> <<>>, features_df |-> <<>>, processed_trials |-> <<>>,
     error_message |-> "", selections |-> <<>>, raised |-> FALSE]

(***************************************************************************)
(* Actions.                                                                *)
(***************************************************************************)
\* some other part of the process draws from the global generator
OtherDraw ==
    /\ pc = "idle"
    /\ draws < MaxDraws
    /\ rng' = rng_next(rng)
    /\ draws' = draws + 1
    /\ UNCHANGED <<pc, config, subjects, next_subject, loaded, all_trials,
                   next_trial, selections, qc_summary_rows, features_df,
                   error_message, notices, run, run1, run_starts, inputs,
                   temp_files, stages>>

\* app.py: a fresh AppConfig is built and run_full_pipeline entered;
\* load_all_trial_data starts with pair_subject_files
RunFullPipeline ==
    /\ pc = "idle"
    /\ config' = [config EXCEPT !.sfreq = DefaultSfreq]
    /\ IF IsEmpty(eeg_files)
       THEN /\ error_message' = "no_eeg_files"
            /\ pc' = "done"
            /\ UNCHANGED <<subjects, notices, stages>>
       ELSE LET paired == pair_subject_files(eeg_files, survey_files)
            IN /\ subjects' = paired.subjects
               /\ notices' = paired.notices
               /\ pc' = "load"
               /\ stages' = Append(stages, "load_all_trial_data")
               /\ UNCHANGED error_message
    /\ next_subject' = 1
    /\ UNCHANGED <<rng, draws, loaded, all_trials, next_trial, selections,
                   qc_summary_rows, features_df, run, run1, inputs,
                   temp_files>>
    /\ run_starts' = Append(run_starts, rng)

\* load_all_trial_data: the loop body for the next subject; an exception
\* raised in it leaves load_all_trial_data and run_full_pipeline
LoadSubject ==
    /\ pc = "load"
    /\ next_subject <= Len(subjects)
    /\ LET r == load_subject(subjects[next_subject])
       IN /\ all_trials' = Extend(all_trials, r.trials)
          /\ notices' = notices \o r.notices
          /\ loaded' = Append(loaded, r.record)
          /\ config' = IF Len(r.sfreq) = 0 THEN config
                       ELSE [config EXCEPT !.sfreq = r.sfreq[1]]
          /\ temp_files' = IF r.temp_left
                           THEN Append(temp_files, r.record.sid)
                           ELSE temp_files
          /\ pc' = IF r.raised /= "" THEN "raised" ELSE pc
    /\ next_subject' = next_subject + 1
    /\ UNCHANGED <<rng, draws, subjects, next_trial, selections,
                   qc_summary_rows, features_df, error_message, run, run1,
                   run_starts, inputs, stages>>

\* load_all_trial_data returns; run_full_pipeline stops on an empty list
LoadReturn ==
    /\ pc = "load"
    /\ next_subject > Len(subjects)
    /\ IF IsEmpty(all_trials)
       THEN error_message' = "load_failed" /\ pc' = "done" /\ UNCHANGED stages
       ELSE /\ pc' = "qc"
            /\ stages' = Append(stages, "run_preprocessing_pipeline")
            /\ UNCHANGED error_message
    /\ next_trial' = 1
    /\ UNCHANGED <<config, rng, draws, subjects, next_subject, loaded,
                   all_trials, selections, qc_summary_rows, features_df,
                   notices, run, run1, run_starts, inputs, temp_files>>

\* run_preprocessing_pipeline: the loop body for the next trial
PreprocessTrial ==
    /\ pc = "qc"
    /\ next_trial <= Len(all_trials)
    /\ LET r == preprocess_trial(all_trials[next_trial], config, rng)
       IN /\ all_trials' = [all_trials EXCEPT ![next_trial] = r.trial]
          /\ qc_summary_rows' = AppendRow(qc_summary_rows, r.row)
          /\ selections' = Append(selections, r.selected)
          /\ rng' = r.rng
    /\ next_trial' = next_trial + 1
    /\ UNCHANGED <<pc, config, draws, subjects, next_subject, loaded,
                   features_df, error_message, notices, run, run1,
                   run_starts, inputs, temp_files, stages>>

\* extract_all_features, and run_full_pipeline's return; an exception raised
\* by extract_all_features leaves run_full_pipeline
ExtractAllFeatures ==
    /\ pc = "qc"
    /\ next_trial > Len(all_trials)
    /\ LET r == extract_all_features(all_trials, rng)
       IN IF r.raised /= ""
          THEN /\ pc' = "raised"
               /\ UNCHANGED <<features_df, rng, error_message>>
          ELSE /\ features_df' = r.df
               /\ rng' = r.rng
               /\ error_message' = IF IsEmpty(r.df) THEN "all_removed" ELSE ""
               /\ pc' = "done"
    /\ stages' = Append(stages, "extract_all_features")
    /\ UNCHANGED <<config, draws, subjects, next_subject, loaded, all_trials,
                   next_trial, selections, qc_summary_rows, notices, run,
                   run1, run_starts, inputs, temp_files>>

\* the same files and settings are analysed once more
RunAgain ==
    /\ pc \in {"done", "raised"}
    /\ run = 1
    /\ run1' = [RunResult EXCEPT !.raised = (pc = "raised")]
    /\ run' = 2
    /\ pc' = "idle"
    /\ subjects' = <<>>
    /\ next_subject' = 1
    /\ loaded' = <<>>
    /\ all_trials' = <<>>
    /\ next_trial' = 1
    /\ selections' = <<>>
    /\ qc_summary_rows' = <<>>
    /\ features_df' = <<>>
    /\ error_message' = ""
    /\ notices' = <<>>
    /\ stages' = <<>>
    /\ UNCHANGED <<config, rng, draws, run_starts, inputs, temp_files>>

Next ==
    \/ OtherDraw
    \/ RunFullPipeline
    \/ LoadSubject
    \/ LoadReturn
    \/ PreprocessTrial
    \/ ExtractAllFeatures
    \/ RunAgain

(***************************************************************************)
(* Initial states.                                                         *)
(***************************************************************************)
NoQcCall == [data |-> <<>>, loose |-> <<>>, tight |-> <<>>, k |-> 0]

NoFnCall == [fn |-> ""]

InitRun ==
    /\ pc = "idle"
    /\ rng = 0
    /\ draws = 0
    /\ subjects = <<>>
    /\ next_subject = 1
    /\ loaded = <<>>
    /\ all_trials = <<>>
    /\ next_trial = 1
    /\ selections = <<>>
    /\ qc_summary_rows = <<>>
    /\ features_df = <<>>
    /\ error_message = ""
    /\ notices = <<>>
    /\ run = 1
    /\ run1 = NoResult
    /\ run_starts = <<>>
    /\ qc_in = NoQcCall
    /\ qc_out = <<>>
    /\ fn_in = NoFnCall
    /\ fn_out = <<>>
    /\ temp_files = <<>>
    /\ stages = <<>>

AppConfig(amp, diff, nb, ns) ==
    [sfreq |-> DefaultSfreq, amp_uV |-> amp, diff_uV |-> diff,
     baseline_samples |-> nb, stim_samples |-> ns]

EegFile(sid, sfreq, n_secs, pattern, marks, annot_error) ==
    [sid |-> <<sid>>, is_xdf |-> TRUE, readable |-> TRUE, has_eeg |-> TRUE,
     sfreq |-> sfreq, n_secs |-> n_secs, pattern |-> pattern,
     markers |-> [i \in 1..Len(marks) |->
                    [sample |-> marks[i][1] * sfreq, value |-> marks[i][2]]],
     annot_error |-> annot_error, write_raises |-> FALSE,
     parse_raises |-> FALSE]

\* marker lists: up to MaxMarkers markers at ascending onsets (seconds)
OnsetSecs == {2, 3, 4, 7}
MarkerValues == {4, 5, 7}

MarkerLists ==
    UNION {{m \in [1..n -> OnsetSecs \X MarkerValues] :
               \A i \in 1..(n - 1) : m[i][1] < m[i + 1][1]} : n \in 0..MaxMarkers}

\* the data patterns and settings of the QC stage
Patterns == {"flat", "quiet", "spikes", "noisy"}

Init ==
    /\ InitRun
    /\ \/ /\ eeg_files = <<>>
          /\ survey_files = <<>>
          /\ config = AppConfig(3, 2, 2, 5)
       \/ /\ \E sfreq \in {1, 2}, pattern \in Patterns,
                marks \in {<<<<3, 4>>, <<4, 5>>>>, <<<<2, 4>>, <<3, 5>>, <<4, 7>>>>} :
                eeg_files = <<EegFile(1, sfreq, 16, pattern, marks, FALSE)>>
          /\ survey_files = <<>>
          /\ \E amp \in {1, 20}, diff \in {1, 20}, nb \in 1..MaxK,
                ns \in {1, MaxK, 9} :
                config = AppConfig(amp, diff, nb, ns)

Spec == Init /\ [][Next]_vars

(***************************************************************************)
(* Initial states for the loader: one recording of subject 1 with every    *)
(* marker list (the library raises only on annotations it was given; the   *)
(* recordings without markers are the 40 s ones, long enough for a third   *)
(* synthetic slot), or with two markers and every survey table of up to    *)
(* MaxRows rows (rows of subject 1 and of subject 2).                      *)
(***************************************************************************)
Scores == {<<>>, <<2>>, <<3>>, <<5>>, <<6>>}

SurveyRows ==
    {[subject_id |-> sub, trial_id |-> tid, like_score |-> score,
      valence |-> <<sub + 3>>, arousal |-> IF tid = 1 THEN <<>> ELSE <<sub>>] :
        sub \in {1}, tid \in {1, 2}, score \in Scores}
    \cup
    {[subject_id |-> sub, trial_id |-> tid, like_score |-> score,
      valence |-> <<sub + 3>>, arousal |-> IF tid = 1 THEN <<>> ELSE <<sub>>] :
        sub \in {2}, tid \in {1, 2}, score \in {<<2>>, <<6>>}}

SurveyTables == UNION {[1..n -> SurveyRows] : n \in 0..MaxRows}

InitLoad ==
    /\ InitRun
    /\ config = AppConfig(200, 200, 2, 5)
    /\ \/ /\ \E sfreq \in {1, 2}, n_secs \in {16, 40}, marks \in MarkerLists,
                annot_error \in BOOLEAN :
                /\ annot_error => Len(marks) > 0
                /\ Len(marks) = 0 => n_secs = 40
                /\ eeg_files = <<EegFile(1, sfreq, n_secs, "ramp", marks,
                                         annot_error)>>
          /\ survey_files = <<>>
       \/ /\ eeg_files = <<EegFile(1, 1, 16, "ramp", <<<<3, 4>>, <<4, 5>>>>,
                                   FALSE)>>
          /\ \E rows \in SurveyTables, ok \in BOOLEAN :
                /\ ~ok => Len(rows) = 0
                /\ survey_files = <<[sid |-> <<1>>, ok |-> ok, rows |-> rows]>>

SpecLoad == InitLoad /\ [][Next]_vars

(***************************************************************************)
(* Initial states for batches: up to MaxFiles recordings, each a readable  *)
(* recording of subject 1 (1 Hz) or of subject 2 (2 Hz) with two markers,  *)
(* a recording of subject 1 with a repeated marker value,                  *)
(* or a file of subject 3 that fails in one of the ways the loader meets   *)
(* (or a file without a subject id); with or without a survey table of a   *)
(* subject 4 who has no recording.                                         *)
(***************************************************************************)
MaxFiles == 2

GoodFile(sid, sfreq) ==
    EegFile(sid, sfreq, 16, "ramp", <<<<3, 4>>, <<4, 5>>>>, FALSE)

FailingFiles ==
    {[GoodFile(3, 1) EXCEPT !.sid = <<>>],
     [GoodFile(3, 1) EXCEPT !.readable = FALSE],
     [GoodFile(3, 1) EXCEPT !.is_xdf = FALSE],
     [GoodFile(3, 1) EXCEPT !.has_eeg = FALSE],
     EegFile(3, 1, 16, "ramp", <<>>, FALSE)}

RaisingFiles ==
    {[GoodFile(3, 1) EXCEPT !.write_raises = TRUE],
     [GoodFile(3, 1) EXCEPT !.parse_raises = TRUE]}

\* a recording of subject 1 whose first two markers carry the same value
RepeatedCodesFile ==
    EegFile(1, 1, 16, "ramp", <<<<3, 4>>, <<4, 4>>, <<5, 5>>>>, FALSE)

FileLibrary ==
    {GoodFile(1, 1), GoodFile(2, 2), RepeatedCodesFile}
        \cup FailingFiles \cup RaisingFiles

Batches == UNION {[1..n -> FileLibrary] : n \in 0..MaxFiles}

InitBatch ==
    /\ InitRun
    /\ config = AppConfig(200, 200, 2, 5)
    /\ eeg_files \in Batches
    /\ survey_files \in {<<>>, <<[sid |-> <<4>>, ok |-> TRUE, rows |-> <<>>]>>}

SpecBatch == InitBatch /\ [][Next]_vars

(***************************************************************************)
(* Direct calls of check_window_quality and get_clean_windows on bounded   *)
(* segments: up to MaxWindows windows of two samples (1 s at 2 Hz) drawn   *)
(* from a library around the thresholds, with or without a trailing        *)
(* partial window; two settings, the second no looser than the first.      *)
(***************************************************************************)
WindowLibrary ==
    { <<<<0, 0>>, <<0, 0>>>>,      \* quiet
      <<<<2, 2>>, <<0, 1>>>>,      \* amplitude 2, difference 1
      <<<<3, 3>>, <<-3, -3>>>>,    \* amplitude 3, channels far apart
      <<<<2, 2>>, <<-2, -2>>>>,    \* amplitude 2 throughout
      <<<<0, 2>>, <<0, 0>>>>,      \* difference 2
      <<<<1, -2>>, <<4, 4>>>> }    \* amplitude 4, difference 3

Thresholds == {<<2, 1>>, <<2, 2>>, <<3, 2>>, <<3, 3>>}

\* the windows side by side, then tail
RECURSIVE Concat(_, _)
Concat(windows, tail) ==
    IF Len(windows) = 0 THEN tail
    ELSE LET rest == Concat(Tail(windows), tail)
         IN [c \in 1..NumChannels |-> windows[1][c] \o rest[c]]

Segments ==
    UNION {{Concat(ws, tail) : ws \in [1..n -> WindowLibrary],
                               tail \in {<<<<>>, <<>>>>, <<<<0>>, <<9>>>>}}
           : n \in 0..MaxWindows}

InitQC ==
    /\ pc = "qc_call"
    /\ rng \in {0, 9}
    /\ draws = 0
    /\ eeg_files = <<>>
    /\ survey_files = <<>>
    /\ config = AppConfig(0, 0, 1, 1)
    /\ subjects = <<>>
    /\ next_subject = 1
    /\ loaded = <<>>
    /\ all_trials = <<>>
    /\ next_trial = 1
    /\ selections = <<>>
    /\ qc_summary_rows = <<>>
    /\ features_df = <<>>
    /\ error_message = ""
    /\ notices = <<>>
    /\ run = 1
    /\ run1 = NoResult
    /\ run_starts = <<>>
    /\ qc_out = <<>>
    /\ fn_in = NoFnCall
    /\ fn_out = <<>>
    /\ temp_files = <<>>
    /\ stages = <<>>
    /\ \E data \in Segments, l \in Thresholds, t \in Thresholds, k \in 1..MaxK :
          /\ t[1] <= l[1]
          /\ t[2] <= l[2]
          /\ qc_in = [data |-> data,
                      loose |-> [AppConfig(l[1], l[2], k, k) EXCEPT !.sfreq = 2],
                      tight |-> [AppConfig(t[1], t[2], k, k) EXCEPT !.sfreq = 2],
                      k |-> k]

NoCall == [epoch |-> NoEpoch, qc |-> QCResult(FALSE, 0, 0), selected |-> <<>>,
           rng |-> 0]

\* check_window_quality(window, config) on one window of the segment
CallCheckWindowQuality ==
    /\ pc = "qc_call"
    /\ \E i \in 0..(MaxWindows + 1) :
          /\ (i + 1) * win_len_samples(qc_in.loose) <= NCols(qc_in.data)
          /\ qc_out' = <<[kind |-> "check",
                          window |-> WindowAt(qc_in.data, qc_in.loose, i),
                          accepted |-> check_window_quality(
                              WindowAt(qc_in.data, qc_in.loose, i), qc_in.loose),
                          loose |-> NoCall, tight |-> NoCall]>>
    /\ pc' = "qc_done"
    /\ UNCHANGED <<eeg_files, survey_files, qc_in, config, rng, draws, subjects,
                   next_subject, loaded, all_trials, next_trial, selections,
                   qc_summary_rows, features_df, error_message, notices, run,
                   run1, run_starts, fn_in, fn_out, temp_files, stages>>

\* get_clean_windows(data, config, k) under the first settings, then the second
CallGetCleanWindows ==
    /\ pc = "qc_call"
    /\ LET a == get_clean_windows(qc_in.data, qc_in.loose, qc_in.k, rng)
           b == get_clean_windows(qc_in.data, qc_in.tight, qc_in.k, a.rng)
       IN /\ qc_out' = <<[kind |-> "clean", window |-> <<>>, accepted |-> FALSE,
                          loose |-> a, tight |-> b]>>
          /\ rng' = b.rng
    /\ pc' = "qc_done"
    /\ UNCHANGED <<eeg_files, survey_files, qc_in, config, draws, subjects,
                   next_subject, loaded, all_trials, next_trial, selections,
                   qc_summary_rows, features_df, error_message, notices, run,
                   run1, run_starts, fn_in, fn_out, temp_files, stages>>

NextQC ==
    \/ CallCheckWindowQuality
    \/ CallGetCleanWindows

SpecQC == InitQC /\ [][NextQC]_vars

(***************************************************************************)
(* Direct calls of the pure functions on bounded arguments.                *)
(*                                                                         *)
(* File names: a convention token, up to MaxZeros leading zeros, a number, *)
(* an optional task suffix and an extension, in lower or upper case; and   *)
(* names without any digit.                                                *)
(*                                                                         *)
(* Feature values: a baseline and a stimulus value of one feature and      *)
(* channel, each 0..MaxFeature units of the guard constant.                *)
(*                                                                         *)
(* Statistics calls: a feature table of 1..MaxStatRows rows, each with a   *)
(* preference and a present or missing value of the feature, passed the    *)
(* way the dashboard passes it (mode "group", or mode "correlation" with a *)
(* target column) or with one of the labels the function knows.            *)
(***************************************************************************)
MaxZeros == 2

MaxFeature == 3

MaxStatRows == 4

StatRows ==
    {[preference |-> p, value |-> v] :
        p \in {LIKE, NEUTRAL, DISLIKE}, v \in {<<>>, <<1>>}}

FeatureTables ==
    {[columns |-> {"subject_id", "trial_id", "preference", "feature",
                   "dummy_valence"},
      rows |-> rows] :
        rows \in UNION {[1..n -> StatRows] : n \in 1..MaxStatRows}}

\* app.py 255 and 263
DashboardCalls ==
    {[fn |-> "run_statistical_analysis", dashboard |-> TRUE, mode |-> "group",
      args |-> <<df, "feature", "group">>] : df \in FeatureTables}
    \cup
    {[fn |-> "run_statistical_analysis", dashboard |-> TRUE,
      mode |-> "correlation",
      args |-> <<df, "feature", "correlation", target>>] :
        df \in FeatureTables, target \in {"valence", "arousal"}}

\* calls with the labels of stats.py
LabelCalls ==
    {[fn |-> "run_statistical_analysis", dashboard |-> FALSE, mode |-> label,
      args |-> <<df, "feature", label>>] :
        df \in FeatureTables,
        label \in {GroupComparisonLabel, CorrelationLabel}}

FeaturePairs ==
    {[fn |-> "ratio", baseline |-> b, stim |-> v] :
        b \in 0..MaxFeature, v \in 0..MaxFeature}

Conventions ==
    [sub_P |-> <<"s", "u", "b", "-", "P">>,
     sub_u |-> <<"s", "u", "b", "_">>,
     sub |-> <<"s", "u", "b", "-">>,
     experiment_data |-> <<"e", "x", "p", "e", "r", "i", "m", "e", "n", "t", "_",
                           "d", "a", "t", "a", "_">>,
     sid_u |-> <<"s", "i", "d", "_">>,
     sid |-> <<"s", "i", "d">>,
     digits |-> <<>>]

NumberDigits == {<<"1">>, <<"2">>, <<"1", "0">>}

NameSuffixes == {<<>>, <<"_", "t", "a", "s", "k">>, <<"-", "t", "a", "s", "k">>}

Extensions == {<<".", "x", "d", "f">>, <<".", "c", "s", "v">>}

Zeros(n) == [i \in 1..n |-> "0"]

UpperName(s) == [i \in 1..Len(s) |-> Upper(s[i])]

\* names that name subject number IntOf(number) under a convention
ConventionNames ==
    {[fn |-> "extract_subject_id_from_filename",
      fname |-> IF upper THEN UpperName(Conventions[conv] \o Zeros(z) \o number
                                        \o suffix) \o ext
                ELSE Conventions[conv] \o Zeros(z) \o number \o suffix \o ext,
      convention |-> conv, suffix |-> suffix,
      number |-> <<IntOf(number, 1, Len(number))>>] :
        conv \in DOMAIN Conventions, z \in 0..MaxZeros, number \in NumberDigits,
        suffix \in NameSuffixes, ext \in Extensions, upper \in BOOLEAN}

\* names with no digit in them
NumberlessNames ==
    {[fn |-> "extract_subject_id_from_filename", fname |-> stem \o ext,
      convention |-> "none", suffix |-> <<>>, number |-> <<>>] :
        stem \in {<<"n", "o", "t", "e", "s">>, <<"s", "u", "b", "-", "P">>,
                  <<"s", "i", "d", "_", "t", "a", "s", "k">>},
        ext \in Extensions}

InitCalls ==
    /\ pc = "fn_call"
    /\ rng = 0
    /\ draws = 0
    /\ eeg_files = <<>>
    /\ survey_files = <<>>
    /\ config = AppConfig(0, 0, 1, 1)
    /\ subjects = <<>>
    /\ next_subject = 1
    /\ loaded = <<>>
    /\ all_trials = <<>>
    /\ next_trial = 1
    /\ selections = <<>>
    /\ qc_summary_rows = <<>>
    /\ features_df = <<>>
    /\ error_message = ""
    /\ notices = <<>>
    /\ run = 1
    /\ run1 = NoResult
    /\ run_starts = <<>>
    /\ qc_in = NoQcCall
    /\ qc_out = <<>>
    /\ fn_out = <<>>
    /\ temp_files = <<>>
    /\ stages = <<>>
    /\ fn_in \in ConventionNames \cup NumberlessNames \cup FeaturePairs
                    \cup DashboardCalls \cup LabelCalls

\* extract_subject_id_from_filename(fname)
CallExtractSubjectId ==
    /\ pc = "fn_call"
    /\ fn_in.fn = "extract_subject_id_from_filename"
    /\ fn_out' = <<extract_subject_id_from_filename(fn_in.fname)>>
    /\ pc' = "fn_done"
    /\ UNCHANGED <<eeg_files, survey_files, qc_in, qc_out, fn_in, config, rng,
                   draws, subjects, next_subject, loaded, all_trials,
                   next_trial, selections, qc_summary_rows, features_df,
                   error_message, notices, run, run1, run_starts, temp_files,
                   stages>>

\* the ratio statements of extract_all_features on one feature value pair
ComputeRatio ==
    /\ pc = "fn_call"
    /\ fn_in.fn = "ratio"
    /\ fn_out' = <<RatioOf(fn_in.baseline, fn_in.stim)>>
    /\ pc' = "fn_done"
    /\ UNCHANGED <<eeg_files, survey_files, qc_in, qc_out, fn_in, config, rng,
                   draws, subjects, next_subject, loaded, all_trials,
                   next_trial, selections, qc_summary_rows, features_df,
                   error_message, notices, run, run1, run_starts, temp_files,
                   stages>>

\* run_statistical_analysis(*args)
CallRunStatisticalAnalysis ==
    /\ pc = "fn_call"
    /\ fn_in.fn = "run_statistical_analysis"
    /\ fn_out' = <<run_statistical_analysis(fn_in.args)>>
    /\ pc' = "fn_done"
    /\ UNCHANGED <<eeg_files, survey_files, qc_in, qc_out, fn_in, config, rng,
                   draws, subjects, next_subject, loaded, all_trials,
                   next_trial, selections, qc_summary_rows, features_df,
                   error_message, notices, run, run1, run_starts, temp_files,
                   stages>>

NextCalls ==
    \/ CallExtractSubjectId
    \/ ComputeRatio
    \/ CallRunStatisticalAnalysis

SpecCalls == InitCalls /\ [][NextCalls]_vars

(***************************************************************************)
(* Properties.                                                             *)
(***************************************************************************)
\* the trials run_preprocessing_pipeline has handled in this run
Processed == {i \in 1..Len(all_trials) : Len(all_trials[i].qc_info) > 0}

\* C1: after preprocessing, a trial is valid exactly when both its baseline and
\* its stimulus QC results are valid, and each segment's clean epoch is present
\* exactly when that segment's QC result is valid.
C1_ValidityInvariant ==
    \A i \in Processed :
        LET t == all_trials[i]
            qc == t.qc_info[1]
        IN /\ t.is_valid = (qc.baseline.is_valid /\ qc.stim.is_valid)
           /\ (t.clean_baseline_data /= NoEpoch) = qc.baseline.is_valid
           /\ (t.clean_stim_data /= NoEpoch) = qc.stim.is_valid

\* a processed trial whose baseline passed QC and whose stimulus segment did not
C1_Witness ==
    /\ pc = "done"
    /\ \E i \in Processed :
          /\ all_trials[i].qc_info[1].baseline.is_valid
          /\ ~all_trials[i].qc_info[1].stim.is_valid
          /\ all_trials[i].clean_baseline_data /= NoEpoch
          /\ ~all_trials[i].is_valid

\* the complete windows of a segment that pass the two threshold tests,
\* by position (from 0)
AcceptedWindows(data, cfg) ==
    LET w == win_len_samples(cfg)
    IN {i \in 0..((NCols(data) \div w) - 1) :
           /\ \A c \in 1..Len(data) : \A t \in (i * w + 1)..((i + 1) * w) :
                 data[c][t] <= cfg.amp_uV /\ -data[c][t] <= cfg.amp_uV
           /\ \A c \in 1..Len(data) : \A t \in (i * w + 1)..((i + 1) * w - 1) :
                 /\ data[c][t + 1] - data[c][t] <= cfg.diff_uV
                 /\ data[c][t] - data[c][t + 1] <= cfg.diff_uV}

RECURSIVE SumOver(_, _)
SumOver(S, f) ==
    IF S = {} THEN 0
    ELSE LET i == CHOOSE x \in S : TRUE
         IN f[i] + SumOver(S \ {i}, f)

\* C2: get_clean_windows marks the segment valid and returns an epoch exactly
\* when at least k windows are accepted; the epoch is then the element-wise
\* average of k distinct accepted windows; otherwise there is no epoch (3
\* windows, 1 clean, k = 2: invalid, n_clean_windows 1, total_windows 3).
C2_SelectionContract ==
    (Len(qc_out) > 0 /\ qc_out[1].kind = "clean") =>
        LET r == qc_out[1].loose
            cfg == qc_in.loose
            w == win_len_samples(cfg)
            accepted == AcceptedWindows(qc_in.data, cfg)
            chosen == Range(r.selected)
        IN /\ r.qc.is_valid = (Cardinality(accepted) >= qc_in.k)
           /\ (r.epoch /= NoEpoch) = r.qc.is_valid
           /\ r.qc.n_clean_windows = Cardinality(accepted)
           /\ r.qc.is_valid =>
                 /\ Len(r.selected) = qc_in.k
                 /\ Cardinality(chosen) = qc_in.k
                 /\ chosen \subseteq accepted
                 /\ r.epoch.den = qc_in.k
                 /\ r.epoch.num =
                       [c \in 1..NumChannels |-> [t \in 1..w |->
                           SumOver(chosen, [i \in chosen |->
                                               qc_in.data[c][i * w + t]])]]
           /\ (NCols(qc_in.data) \div w = 3 /\ Cardinality(accepted) = 1
                  /\ qc_in.k = 2) =>
                 /\ ~r.qc.is_valid
                 /\ r.qc.n_clean_windows = 1
                 /\ r.qc.total_windows = 3
                 /\ r.epoch = NoEpoch

\* a call that sampled fewer windows than were accepted, from differing windows
C2_Witness ==
    /\ Len(qc_out) > 0
    /\ qc_out[1].kind = "clean"
    /\ qc_out[1].loose.qc.is_valid
    /\ qc_in.k = 2
    /\ qc_out[1].loose.qc.n_clean_windows = 3
    /\ \E c \in 1..NumChannels : \E t \in 1..2 :
          qc_out[1].loose.epoch.num[c][t] = 5

\* C4: check_window_quality rejects a window exactly when some sample's
\* absolute value is strictly above the amplitude threshold or some difference
\* of adjacent samples of a channel is strictly above the difference
\* threshold; a sample equal to the amplitude threshold does not reject, a
\* sample one above it does.
C4_RejectIffExceeds ==
    (Len(qc_out) > 0 /\ qc_out[1].kind = "check") =>
        LET w == qc_out[1].window
            amp == qc_in.loose.amp_uV
            diff == qc_in.loose.diff_uV
            samples == {w[c][t] : c \in 1..Len(w), t \in 1..Len(w[1])}
            steps == {w[c][t + 1] - w[c][t] :
                          c \in 1..Len(w), t \in 1..(Len(w[1]) - 1)}
            over(S, limit) == \E v \in S : v > limit \/ -v > limit
        IN /\ (~qc_out[1].accepted) = (over(samples, amp) \/ over(steps, diff))
           /\ (amp + 1 \in samples) => ~qc_out[1].accepted
           /\ (~over(steps, diff) /\ ~over(samples, amp - 1)
                  /\ over(samples, amp)) => qc_out[1].accepted

\* a window with a sample exactly at the amplitude threshold, accepted
C4_Witness ==
    /\ Len(qc_out) > 0
    /\ qc_out[1].kind = "check"
    /\ qc_out[1].accepted
    /\ \E c \in 1..NumChannels : \E t \in 1..Len(qc_out[1].window[c]) :
          Abs(qc_out[1].window[c][t]) = qc_in.loose.amp_uV

\* C5: with both thresholds of the second settings no higher than the first's,
\* get_clean_windows reports no more clean windows under the second and the
\* same number of windows in total.
C5_QCMonotone ==
    (Len(qc_out) > 0 /\ qc_out[1].kind = "clean") =>
        /\ qc_out[1].tight.qc.n_clean_windows <= qc_out[1].loose.qc.n_clean_windows
        /\ qc_out[1].tight.qc.total_windows = qc_out[1].loose.qc.total_windows

\* tightening both thresholds lost some but not all clean windows
C5_Witness ==
    /\ Len(qc_out) > 0
    /\ qc_out[1].kind = "clean"
    /\ qc_in.tight.amp_uV < qc_in.loose.amp_uV
    /\ qc_in.tight.diff_uV < qc_in.loose.diff_uV
    /\ qc_out[1].tight.qc.n_clean_windows > 0
    /\ qc_out[1].tight.qc.n_clean_windows < qc_out[1].loose.qc.n_clean_windows

\* C3: with the same files and settings, the second run of the pipeline
\* samples the same windows and ends with the same clean epochs, QC summary,
\* feature table and outcome as the first, whatever was drawn from the
\* process's generator before or between the runs.
C3_Determinism ==
    (pc \in {"done", "raised"} /\ run = 2) => RunResult = run1

\* a second run that started from another generator state than the first and
\* sampled among more clean windows than it keeps
C3_Witness ==
    /\ pc \in {"done", "raised"}
    /\ run = 2
    /\ draws > 0
    /\ Len(run_starts) = 2
    /\ run_starts[1] /= run_starts[2]
    /\ "extract_all_features" \in Range(stages)
    /\ \E i \in Processed :
          /\ all_trials[i].is_valid
          /\ all_trials[i].qc_info[1].stim.n_clean_windows > config.stim_samples
          /\ config.stim_samples > 1

\* the loop's locals for the subjects whose events reached extract_trials
Extracted == {i \in 1..Len(loaded) : loaded[i].outcome = "extracted"}

\* position of the first event of e with the code of e[j]
FirstWithCode(e, j) ==
    CHOOSE i \in 1..Len(e) :
        /\ e[i].event_id = e[j].event_id
        /\ \A h \in 1..(i - 1) : e[h].event_id /= e[j].event_id

\* C6: the events handed to extract_trials hold every event code of the decoded
\* sequence once, as its first occurrence, in the decoded (ascending sample)
\* order; codes A, B, A at three offsets resolve to the first two events.
C6_FirstOccurrenceKept ==
    \A r \in Extracted :
        LET e == loaded[r].events
            u == loaded[r].unique_events
        IN /\ {u[i].event_id : i \in 1..Len(u)} = {e[i].event_id : i \in 1..Len(e)}
           /\ \A i, j \in 1..Len(u) : i /= j => u[i].event_id /= u[j].event_id
           /\ \A i \in 1..Len(u) :
                 \E j \in 1..Len(e) : u[i] = e[FirstWithCode(e, j)]
           /\ \A i, j \in 1..Len(u) : i < j =>
                 /\ u[i].sample <= u[j].sample
                 /\ \E a, b \in 1..Len(e) :
                       a < b /\ e[a] = u[i] /\ e[b] = u[j]
           /\ (/\ Len(e) = 3
               /\ e[1].event_id = e[3].event_id
               /\ e[1].event_id /= e[2].event_id) => u = <<e[1], e[2]>>

\* decoded codes A, B, A resolved to the first two events
C6_Witness ==
    \E r \in Extracted :
        /\ ~loaded[r].dummy
        /\ Len(loaded[r].events) = 3
        /\ loaded[r].events[1].event_id = loaded[r].events[3].event_id
        /\ loaded[r].events[1].event_id /= loaded[r].events[2].event_id
        /\ loaded[r].events[1].sample < loaded[r].events[3].sample
        /\ Len(loaded[r].unique_events) = 2

\* both windows of an event lie within the recording
InBounds(raw, event) ==
    /\ event.sample - BaselineLen * raw.sfreq >= 0
    /\ event.sample + StimEnd * raw.sfreq <= raw.n_times

\* the trial records of subject sid segmented around event: each has exactly
\* the baseline samples before the onset and the stimulus samples from it
TrialsAround(raw, sid, event) ==
    {i \in 1..Len(all_trials) :
        /\ all_trials[i].subject_id = sid
        /\ all_trials[i].trial_id = event.event_id
        /\ all_trials[i].raw_baseline_data =
              [c \in 1..NumChannels |-> [t \in 1..(BaselineLen * raw.sfreq) |->
                  raw.data[c][event.sample - BaselineLen * raw.sfreq + t]]]
        /\ all_trials[i].raw_stim_data =
              [c \in 1..NumChannels |-> [t \in 1..(StimEnd * raw.sfreq) |->
                  raw.data[c][event.sample + t]]]}

\* the practice filter of extract_trials: with some code above 2 among the
\* resolved events, only the events with a code above 2 are segmented
Segmented(u, event) ==
    (\E i \in 1..Len(u) : u[i].event_id > PracticeCodes)
        => event.event_id > PracticeCodes

\* C7 as stated: extract_trials makes exactly one trial for every resolved
\* event whose two windows lie within the recording, with those two slices,
\* and none for an event whose window exceeds the recording.
C7_EveryInBoundsEventSegmented ==
    \A r \in Extracted :
        LET raw == loaded[r].raw[1]
            u == loaded[r].unique_events
        IN \A i \in 1..Len(u) :
              Cardinality(TrialsAround(raw, loaded[r].sid, u[i]))
                  = IF InBounds(raw, u[i]) THEN 1 ELSE 0

\* C7 amended: exactly one trial for every resolved event that passes the
\* practice filter (code above 2 when any resolved code is above 2, else every
\* event) and whose two windows lie within the recording, with those two
\* slices; no trial for any other resolved event.
C7_SegmentationAfterPracticeFilter ==
    \A r \in Extracted :
        LET raw == loaded[r].raw[1]
            u == loaded[r].unique_events
        IN /\ \A i \in 1..Len(u) :
                 Cardinality(TrialsAround(raw, loaded[r].sid, u[i]))
                     = IF InBounds(raw, u[i]) /\ Segmented(u, u[i])
                       THEN 1 ELSE 0
           /\ Cardinality({i \in 1..Len(all_trials) :
                              all_trials[i].subject_id = loaded[r].sid})
                 = Cardinality({i \in 1..Len(u) :
                                   InBounds(raw, u[i]) /\ Segmented(u, u[i])})

\* one recording with an event segmented, an event out of bounds and an event
\* within bounds that the practice filter removed
C7_Witness ==
    \E r \in Extracted :
        LET raw == loaded[r].raw[1]
            u == loaded[r].unique_events
        IN /\ \E i \in 1..Len(u) :
                 /\ InBounds(raw, u[i])
                 /\ u[i].event_id > PracticeCodes
                 /\ Cardinality(TrialsAround(raw, loaded[r].sid, u[i])) = 1
           /\ \E i \in 1..Len(u) :
                 /\ ~InBounds(raw, u[i])
                 /\ TrialsAround(raw, loaded[r].sid, u[i]) = {}
           /\ \E i \in 1..Len(u) :
                 /\ InBounds(raw, u[i])
                 /\ u[i].event_id <= PracticeCodes
                 /\ TrialsAround(raw, loaded[r].sid, u[i]) = {}

\* the survey table load_all_trial_data built for the subject of a trial
SurveyOf(trial) ==
    LET r == CHOOSE i \in 1..Len(loaded) : loaded[i].sid = trial.subject_id
    IN IF Len(loaded[r].survey_df) = 0 THEN <<>> ELSE loaded[r].survey_df[1]

\* C8: a trial is LIKE when the score of its matched survey row is >= 6,
\* DISLIKE when it is <= 2, NEUTRAL for a score strictly between, and NEUTRAL
\* without a survey table, without a row for the trial, or when the row has no
\* score.  The matched row is the first row of the subject's table with the
\* trial's id.
C8_PreferenceLabelling ==
    \A i \in 1..Len(all_trials) :
        LET trial == all_trials[i]
            rows == SurveyOf(trial)
            hits == {j \in 1..Len(rows) : rows[j].trial_id = trial.trial_id}
        IN IF hits = {} THEN trial.preference = NEUTRAL
           ELSE LET row == rows[CHOOSE j \in hits : \A h \in hits : j <= h]
                IN IF row.like_score = <<>> THEN trial.preference = NEUTRAL
                   ELSE /\ row.like_score[1] >= 6 => trial.preference = LIKE
                        /\ row.like_score[1] <= 2 => trial.preference = DISLIKE
                        /\ (row.like_score[1] > 2 /\ row.like_score[1] < 6)
                              => trial.preference = NEUTRAL

\* a trial scored 6 labelled LIKE, one scored 2 labelled DISLIKE
C8_Witness ==
    \E i, j \in 1..Len(all_trials) :
        /\ all_trials[i].preference = LIKE
        /\ all_trials[j].preference = DISLIKE
        /\ \E a, b \in 1..Len(SurveyOf(all_trials[i])) :
              /\ SurveyOf(all_trials[i])[a].trial_id = all_trials[i].trial_id
              /\ SurveyOf(all_trials[i])[a].like_score = <<6>>
              /\ SurveyOf(all_trials[i])[b].trial_id = all_trials[j].trial_id
              /\ SurveyOf(all_trials[i])[b].like_score = <<2>>
              /\ \A h \in 1..Len(SurveyOf(all_trials[i])) :
                    SurveyOf(all_trials[i])[h].subject_id = all_trials[i].subject_id

\* C9 as stated: a survey row gives a trial its score or ratings only when the
\* row's subject_id and trial_id are the trial's; a row of another subject
\* with the same trial_id never decides preference, valence or arousal.
C9_SurveyJoinBySubjectAndTrial ==
    \A i \in 1..Len(all_trials) :
        LET trial == all_trials[i]
            rows == SurveyOf(trial)
            own == {j \in 1..Len(rows) :
                       /\ rows[j].subject_id = trial.subject_id
                       /\ rows[j].trial_id = trial.trial_id}
        IN /\ trial.preference /= NEUTRAL =>
                 \E j \in own : /\ rows[j].like_score /= <<>>
                                /\ IF trial.preference = LIKE
                                   THEN rows[j].like_score[1] >= 6
                                   ELSE rows[j].like_score[1] <= 2
           /\ trial.valence /= <<>> =>
                 \E j \in own : rows[j].valence = trial.valence
           /\ trial.arousal /= <<>> =>
                 \E j \in own : rows[j].arousal = trial.arousal

\* C10 as stated: a parsed recording without markers, or whose marker decoding
\* failed, gets the synthetic events (13 s apart, ids 1 and 2 left out) with
\* the notice, and when there are synthetic events the subject is not skipped:
\* its trials come from them.
C10_MarkerFallback ==
    \A r \in 1..Len(loaded) :
        (/\ Len(loaded[r].raw) > 0
         /\ (Len(loaded[r].raw[1].markers) = 0 \/ loaded[r].raw[1].annot_error))
        => LET raw == loaded[r].raw[1]
               slots == {i \in 3..(raw.n_times \div (13 * raw.sfreq)) : TRUE}
           IN /\ loaded[r].dummy
              /\ \E n \in 1..Len(notices) :
                    notices[n] = [kind |-> "dummy_events", sid |-> loaded[r].sid]
              /\ slots /= {} =>
                    /\ loaded[r].outcome = "extracted"
                    /\ {loaded[r].events[i] : i \in 1..Len(loaded[r].events)} =
                          {[sample |-> ((i - 1) * 13 + 3) * raw.sfreq,
                            event_id |-> i] : i \in slots}


\* the direct call of fn has returned
Returned(fn) == pc = "fn_done" /\ fn_in.fn = fn

\* C11: every file name that names subject number n under one of the
\* recognized conventions (sub-P001, experiment_data_1, sid_01, bare digits;
\* leading zeros, either letter case, with or without a task suffix) yields
\* the id Sub<n>, and a name without a number yields no id.
C11_SameSubjectSameId ==
    Returned("extract_subject_id_from_filename") => fn_out[1] = fn_in.number


\* load_all_trial_data has returned and the QC stage has not started on its list
LoaderReturned ==
    \/ pc = "qc" /\ next_trial = 1
    \/ pc = "done" /\ error_message = "load_failed"

\* the recordings whose handling raises an exception the loader does not catch
RaisingRecordings ==
    {i \in 1..Len(eeg_files) :
        eeg_files[i].write_raises \/ eeg_files[i].parse_raises}

\* the recording load_all_trial_data uses for subject s: the first with the id
FirstRecording(s) ==
    LET named == {i \in 1..Len(eeg_files) : eeg_files[i].sid = <<s>>}
    IN IF named = {} THEN <<>>
       ELSE <<eeg_files[CHOOSE i \in named : \A j \in named : i <= j]>>

\* a recording the loader can turn into trials
Loadable(f) == f.is_xdf /\ f.readable /\ f.has_eeg /\ Len(f.markers) > 0

\* the trials the recording yields when it is uploaded alone
TrialsAlone(s, f) ==
    load_subject([sid |-> s, eeg |-> <<f>>, survey |-> <<>>]).trials

TrialsOfSubject(s) == SelectSeq(all_trials, LAMBDA t : t.subject_id = s)

SubjectIds == 1..4

FeatureStageEnded == "extract_all_features" \in Range(stages)

ValidTrials == SelectSeq(all_trials, LAMBDA t : t.is_valid)

\* C13: extract_all_features returns, with exactly one row per valid trial, in
\* input order, carrying the trial's subject_id, trial_id and preference, and
\* no row for an invalid trial; when no trial is valid the table is empty and
\* run_full_pipeline reports it with a message other than the load failure's.
C13_OneRowPerValidTrial ==
    FeatureStageEnded =>
        /\ pc = "done"
        /\ Len(features_df) = Len(ValidTrials)
        /\ \A i \in 1..Len(features_df) :
              /\ features_df[i].row.subject_id = ValidTrials[i].subject_id
              /\ features_df[i].row.trial_id = ValidTrials[i].trial_id
              /\ features_df[i].row.preference = ValidTrials[i].preference
        /\ Len(ValidTrials) = 0 =>
              error_message = "all_removed" /\ error_message /= "load_failed"


\* C14: the ratio computed from a baseline value and a stimulus value equals
\* (stim - baseline) / (baseline + epsilon), the baseline in the numerator
\* being the unshifted value (compared by cross-multiplication).
C14_RatioFormula ==
    Returned("ratio") =>
        fn_out[1].num * (fn_in.baseline + Epsilon)
            = (fn_in.stim - fn_in.baseline) * fn_out[1].den

\* C15: for every valid trial the feature table holds a row whose ratios are
\* finite (their divisor is not zero), and so are its asymmetries, also when
\* a baseline feature value is zero.
C15_RatiosFinite ==
    FeatureStageEnded =>
        \A i \in 1..Len(ValidTrials) :
            \E j \in 1..Len(features_df) :
                /\ features_df[j].row.subject_id = ValidTrials[i].subject_id
                /\ features_df[j].row.trial_id = ValidTrials[i].trial_id
                /\ \A name \in FeatureNames :
                      /\ \A c \in 1..NumChannels :
                            features_df[j].row.ratio[name][c].den /= 0
                      /\ features_df[j].row.asymmetry[name].den /= 0


QCStageEntered == "run_preprocessing_pipeline" \in Range(stages)

\* C16: the QC summary has one row per trial handled, in input order, with the
\* trial's identity and validity, so one row per input trial once the feature
\* stage is reached; a trial with too few clean windows in either segment has
\* a row with is_valid false and no row in the feature table.
C16_SummaryRowPerTrial ==
    QCStageEntered =>
        /\ Len(qc_summary_rows) = next_trial - 1
        /\ FeatureStageEnded => Len(qc_summary_rows) = Len(all_trials)
        /\ \A i \in 1..Len(qc_summary_rows) :
              LET row == qc_summary_rows[i]
              IN /\ row.subject_id = all_trials[i].subject_id
                 /\ row.trial_id = all_trials[i].trial_id
                 /\ row.is_valid = all_trials[i].is_valid
                 /\ (row.baseline_clean_windows < config.baseline_samples
                     \/ row.stim_clean_windows < config.stim_samples) =>
                       /\ ~row.is_valid
                       /\ \A j \in 1..Len(features_df) :
                             ~(features_df[j].row.subject_id = row.subject_id
                               /\ features_df[j].row.trial_id = row.trial_id)

\* the feature stage has ended after a QC stage that found one trial valid
\* and another with too few clean windows
C16_Witness ==
    /\ FeatureStageEnded
    /\ \E i, j \in 1..Len(qc_summary_rows) :
          /\ qc_summary_rows[i].is_valid
          /\ ~qc_summary_rows[j].is_valid
          /\ qc_summary_rows[j].stim_clean_windows < config.stim_samples


\* the preference groups of the table with at least two non-missing values
LargeGroups(df) ==
    {p \in {LIKE, NEUTRAL, DISLIKE} : Len(GroupValues(df, p)) >= MinGroupSize}

\* C17: every call the dashboard makes returns a mapping and does not raise;
\* in group mode the mapping holds a p-value when at least two preference
\* groups have at least two non-missing values each, and is empty otherwise.
C17_StatisticsContract ==
    (Returned("run_statistical_analysis") /\ fn_in.dashboard) =>
        /\ fn_out[1].raised = ""
        /\ fn_in.mode = "group" =>
              IF Cardinality(LargeGroups(fn_in.args[1])) >= 2
              THEN "p_value" \in fn_out[1].value
              ELSE fn_out[1].value = {}


\* C18: a run over an empty list of recordings ends at once with its error
\* message and enters no stage; a run whose loader yields no trial ends with
\* the load error after the load stage alone, and neither the QC stage nor
\* the feature stage is ever entered without a trial.
C18_FatalToRun ==
    /\ (pc /= "idle" /\ Len(eeg_files) = 0) =>
          /\ pc = "done"
          /\ error_message = "no_eeg_files"
          /\ stages = <<>>
          /\ all_trials = <<>> /\ qc_summary_rows = <<>> /\ features_df = <<>>
    /\ (LoaderReturned /\ Len(all_trials) = 0) =>
          /\ pc = "done"
          /\ error_message = "load_failed"
          /\ stages = <<"load_all_trial_data">>
          /\ qc_summary_rows = <<>> /\ selections = <<>> /\ features_df = <<>>
    /\ \A i \in 1..Len(stages) :
          stages[i] \in {"run_preprocessing_pipeline", "extract_all_features"}
              => Len(all_trials) > 0

\* a run over supplied recordings whose loader has returned without a trial
C18_Witness ==
    /\ pc = "done"
    /\ Len(eeg_files) > 0
    /\ Len(loaded) = Len(subjects) /\ Len(subjects) > 0
    /\ all_trials = <<>>
    /\ error_message = "load_failed"

\* a run over no recording at all has ended
C18_WitnessNoRecordings ==
    /\ pc = "done"
    /\ Len(eeg_files) = 0
    /\ error_message = "no_eeg_files"


\* the recordings of the run that reached the write of the shared sampling
\* rate
SfreqWrites == {i \in 1..Len(loaded) : Len(loaded[i].raw) > 0}

\* the sampling rate extract_trials used for the trials of a subject
ExtractionSfreq(sid) ==
    LET i == CHOOSE i \in 1..Len(loaded) :
                 loaded[i].sid = sid /\ loaded[i].outcome = "extracted"
    IN loaded[i].raw[1].sfreq

\* every trial is windowed at the rate of the recording it was cut from
WindowedAtOwnRate ==
    \A i \in 1..Len(all_trials) :
        config.sfreq = ExtractionSfreq(all_trials[i].subject_id)

\* C19: in every run the load stage writes the shared sampling rate exactly
\* once, so in the QC stage the rate get_clean_windows reads for a trial is
\* the rate extract_trials used for that trial.
C19_SfreqWrittenOnce ==
    pc = "qc" => (Cardinality(SfreqWrites) = 1 /\ WindowedAtOwnRate)


\* C20: once load_all_trial_data has finished with a recording, on whatever
\* exit path, the temporary copy made for parsing it is gone.
C20_TempCopyRemoved ==
    \A i \in 1..Len(loaded) :
        Len(subjects[i].eeg) > 0 => subjects[i].sid \notin Range(temp_files)


\* the consistency of one QCResult with the segment and settings of its call
QCResultConsistent(qc, data, cfg) ==
    LET w == win_len_samples(cfg)
        n == NCols(data)
    IN /\ qc.total_windows * w <= n
       /\ n < (qc.total_windows + 1) * w
       /\ 0 <= qc.n_clean_windows
       /\ qc.n_clean_windows <= qc.total_windows
       /\ IF qc.total_windows = 0
          THEN qc.quality_score[1] = 0 /\ qc.quality_score[2] /= 0
          ELSE /\ qc.quality_score[2] /= 0
               /\ qc.quality_score[1] * qc.total_windows
                     = qc.n_clean_windows * qc.quality_score[2]
       /\ n < w => (~qc.is_valid /\ qc.total_windows = 0
                       /\ qc.n_clean_windows = 0)

\* C21: for every segment get_clean_windows processes, total_windows is the
\* number of whole windows in the segment (a trailing partial window is not
\* counted), n_clean_windows lies between 0 and total_windows, and
\* quality_score is n_clean_windows / total_windows, or 0 when there is no
\* window; a segment shorter than one window is invalid with 0 windows.
C21_QCResultConsistent ==
    (Len(qc_out) > 0 /\ qc_out[1].kind = "clean") =>
        /\ QCResultConsistent(qc_out[1].loose.qc, qc_in.data, qc_in.loose)
        /\ QCResultConsistent(qc_out[1].tight.qc, qc_in.data, qc_in.tight)

\* a segment of three whole windows and a partial one, some but not all of
\* them clean
C21_Witness ==
    /\ Len(qc_out) > 0
    /\ qc_out[1].kind = "clean"
    /\ NCols(qc_in.data) = 3 * win_len_samples(qc_in.loose) + 1
    /\ qc_out[1].loose.qc.total_windows = 3
    /\ qc_out[1].loose.qc.n_clean_windows = 2
    /\ qc_out[1].loose.qc.quality_score = <<2, 3>>

\* a segment shorter than one window, reported invalid with no window
C21_WitnessShort ==
    /\ Len(qc_out) > 0
    /\ qc_out[1].kind = "clean"
    /\ NCols(qc_in.data) = 1
    /\ qc_out[1].loose.qc = [is_valid |-> FALSE, n_clean_windows |-> 0,
                             total_windows |-> 0, quality_score |-> <<0, 1>>]


\* the positions in loaded of the recording a trial was segmented from
RecordingsOf(trial) ==
    {k \in 1..Len(loaded) :
        loaded[k].sid = trial.subject_id /\ loaded[k].outcome = "extracted"}

\* the trial carries the code of an event of the recording and the samples
\* around that event
SegmentedAround(trial, record) ==
    \E j \in 1..Len(record.unique_events) :
        LET event == record.unique_events[j]
            raw == record.raw[1]
        IN /\ trial.trial_id = event.event_id
           /\ trial.raw_baseline_data =
                 Slice(raw.data, event.sample - BaselineLen * raw.sfreq,
                       event.sample)
           /\ trial.raw_stim_data =
                 Slice(raw.data, event.sample,
                       event.sample + StimEnd * raw.sfreq)

\* C22: in the list load_all_trial_data returns, no two trials have the same
\* subject id and trial id, and the trial id of every trial is the code of
\* the event it was segmented around.
C22_TrialIdentityUnique ==
    LoaderReturned =>
        /\ \A i, j \in 1..Len(all_trials) :
              (all_trials[i].subject_id = all_trials[j].subject_id
                  /\ all_trials[i].trial_id = all_trials[j].trial_id) => i = j
        /\ \A i \in 1..Len(all_trials) :
              \E k \in RecordingsOf(all_trials[i]) :
                  SegmentedAround(all_trials[i], loaded[k])

\* the loader has returned the trials of a batch with two recordings of one
\* subject, the first with a repeated event code
C22_Witness ==
    /\ LoaderReturned
    /\ Len(eeg_files) = 2
    /\ eeg_files[1].sid = eeg_files[2].sid
    /\ Len(loaded) = 1
    /\ loaded[1].outcome = "extracted"
    /\ Len(loaded[1].events) > Len(loaded[1].unique_events)
    /\ Len(all_trials) = 2
    /\ all_trials[1].trial_id /= all_trials[2].trial_id

=============================================================================
